---- MODULE Spec2Model ----
(***************************************************************************)
(* Isoworld (app.py): the isometric tile map, its camera and its picking.  *)
(*                                                                         *)
(* State: the Map's tiles (with their selected/hover flags), the cached    *)
(* draw order, the Camera, the two tile references, and the last pointer   *)
(* position handed to a pick.  History variables record the operation that *)
(* ran last, the tiles its scan tested and the draw calls of the frame.    *)
(*                                                                         *)
(* Numbers.  Python computes the camera and the hit test in binary64.      *)
(* A number is modelled as a two-limb fixed-point value                    *)
(*      (hi * LIMB + lo) / 2^FRAC_BITS,   0 <= lo < LIMB,                  *)
(* and every arithmetic result is rounded to MANT_BITS significant bits,   *)
(* ties to even, as binary64 does.  The grid 2^-FRAC_BITS holds every      *)
(* value the bounded runs below produce (HalfExact is the cap).            *)
(***************************************************************************)
EXTENDS Integers, Sequences, FiniteSets, TLC

------------------------------------------------------------------------------
(* Config *)
CAMERA_SPEED == 10
SCREEN_WIDTH == 800
SCREEN_HEIGHT == 800
TILE_WIDTH == 64
TILE_HEIGHT == 32

WATER == 0
SAND == 1
ROCKS == 5

\* Config.TILE_HEIGHTS
TILE_HEIGHTS(tile_type) ==
    CASE tile_type = 0 -> 0
      [] tile_type = 1 -> 1
      [] tile_type = 2 -> 1
      [] tile_type = 3 -> 1
      [] tile_type = 4 -> 1
      [] tile_type = 5 -> 2
      [] tile_type = 6 -> 1

------------------------------------------------------------------------------
(* binary64 arithmetic on the fixed-point grid *)
MANT_BITS == 53
FRAC_BITS == MANT_BITS - 4
LIMB_BITS == (MANT_BITS + 7) \div 2
LIMB == 2 ^ LIMB_BITS

Num(hi, lo) == [hi |-> hi, lo |-> lo]

\* an integer (or an integer-valued float) as a number
FromInt(n) == Num(n * 2 ^ (FRAC_BITS - LIMB_BITS), 0)

Zero == FromInt(0)

\* exact sum, difference and negation (before rounding)
XAdd(a, b) ==
    LET s == a.lo + b.lo
    IN  Num(a.hi + b.hi + (s \div LIMB), s % LIMB)

XNeg(a) == IF a.lo = 0 THEN Num(-a.hi, 0) ELSE Num(-a.hi - 1, LIMB - a.lo)

XSub(a, b) == XAdd(a, XNeg(b))

IsNeg(a) == a.hi < 0

\* abs()
Abs(a) == IF IsNeg(a) THEN XNeg(a) ELSE a

\* a < b and a <= b
Lt(a, b) == a.hi < b.hi \/ (a.hi = b.hi /\ a.lo < b.lo)

Le(a, b) == a.hi < b.hi \/ (a.hi = b.hi /\ a.lo <= b.lo)

RECURSIVE BitLen(_)
BitLen(n) == IF n = 0 THEN 0 ELSE 1 + BitLen(n \div 2)

\* round a non-negative exact value to a multiple of unit, ties to even
RoundTo(m, unit, rest) ==
    IF 2 * rest > unit \/ (2 * rest = unit /\ ((m.lo \div unit) % 2) = 1)
    THEN XAdd(Num(m.hi, m.lo - rest), Num(0, unit))
    ELSE Num(m.hi, m.lo - rest)

\* the bits of a non-negative exact value beyond MANT_BITS significant bits
DropUnit(m) == 2 ^ BitLen(m.hi \div (2 ^ (MANT_BITS - LIMB_BITS)))

\* round a non-negative exact value to MANT_BITS significant bits
RoundMag(m) ==
    IF m.hi < 2 ^ (MANT_BITS - LIMB_BITS) \/ m.lo = 0 THEN m
    ELSE RoundTo(m, DropUnit(m), m.lo % DropUnit(m))

\* round to nearest binary64
Round(a) == IF IsNeg(a) THEN XNeg(RoundMag(XNeg(a))) ELSE RoundMag(a)

\* float +, float -
FAdd(a, b) == Round(XAdd(a, b))

FSub(a, b) == Round(XSub(a, b))

\* the product or quotient by 2^k is exact in binary64 when it stays on the grid
OnGrid(a, k) == a.lo % (2 ^ k) = 0

\* a / 2^k (a * 0.5 is DivPow2(a, 1))
DivPow2(a, k) ==
    LET p == 2 ^ k
    IN  Num(a.hi \div p, (a.hi % p) * (LIMB \div p) + (a.lo \div p))

------------------------------------------------------------------------------
VARIABLES
    tiles,          \* Map.tiles: sequence of Tile records, in generation order
    sorted_tiles,   \* Map.sorted_tiles: sequence of indices into tiles
    camera,         \* Map.camera: [x, y, target_x, target_y]
    selected_tile,  \* Map.selected_tile: index into tiles, or None
    hovered_tile,   \* Map.hovered_tile: index into tiles, or None
    mouse,          \* the pointer position last handed to a pick
    last_op,        \* history: the operation that ran last
    scanned,        \* history: the tiles the last pick tested, in order
    drawn,          \* history: the draw calls of the last frame, in order
    cleared,        \* history: the reference the last pick found and cleared
    moves,          \* number of move calls so far
    updates         \* number of update calls so far

vars == <<tiles, sorted_tiles, camera, selected_tile, hovered_tile, mouse,
          last_op, scanned, drawn, cleared, moves, updates>>

None == 0

------------------------------------------------------------------------------
(* Camera *)

\* Camera.__init__
Camera(x, y) == [x |-> FromInt(x), y |-> FromInt(y),
                 target_x |-> FromInt(x), target_y |-> FromInt(y)]

\* Camera.move
CameraMove(cam, dx, dy) ==
    [cam EXCEPT !.target_x = FAdd(cam.target_x, dx),
                !.target_y = FAdd(cam.target_y, dy)]

\* a faulty variant: lerp_speed = 1.0
MulLerpFull(v) == v

\* v * lerp_speed, with lerp_speed = Config.CAMERA_LERP = 0.5
MulLerp(v) == DivPow2(v, 1)

\* x += (target - x) * lerp_speed
Lerp(x, target) == FAdd(x, MulLerp(FSub(target, x)))

\* Camera.update
CameraUpdate(cam) ==
    [cam EXCEPT !.x = Lerp(cam.x, cam.target_x),
                !.y = Lerp(cam.y, cam.target_y)]

\* the halvings of Camera.update stay on the grid
HalfExact(cam) ==
    /\ OnGrid(FSub(cam.target_x, cam.x), 1)
    /\ OnGrid(FSub(cam.target_y, cam.y), 1)

------------------------------------------------------------------------------
(* Tile *)

\* Tile.__init__
Tile(x, y, tile_type) ==
    [x |-> x, y |-> y, tile_type |-> tile_type,
     height |-> TILE_HEIGHTS(tile_type), selected |-> FALSE, hover |-> FALSE]

\* a faulty variant: the full tile dimensions instead of the halves
cart_to_iso_full(t) ==
    [iso_x |-> (t.x - t.y) * TILE_WIDTH,
     iso_y |-> (t.x + t.y) * TILE_HEIGHT]

\* Tile.cart_to_iso
cart_to_iso(t) ==
    [iso_x |-> (t.x - t.y) * (TILE_WIDTH \div 2),
     iso_y |-> (t.x + t.y) * (TILE_HEIGHT \div 2)]

\* n = 2^Log2(n) for the half-dimensions, which are powers of two
Log2(n) == BitLen(n) - 1

\* v / n for n a power of two
FDiv(v, n) == DivPow2(v, Log2(n))

\* iso_x + camera_x
tile_screen_x(t, camera_x) == FAdd(FromInt(cart_to_iso(t).iso_x), camera_x)

\* iso_y + camera_y - self.height * Config.TILE_HEIGHT
tile_screen_y(t, camera_y) ==
    FSub(FAdd(FromInt(cart_to_iso(t).iso_y), camera_y),
         FromInt(t.height * TILE_HEIGHT))

\* a faulty variant: the boundary excluded (dx + dy < 1)
contains_point_strict(t, screen_x, screen_y, camera_x, camera_y) ==
    LET local_x == FSub(FromInt(screen_x), tile_screen_x(t, camera_x))
        local_y == FSub(FromInt(screen_y), tile_screen_y(t, camera_y))
        half_w  == TILE_WIDTH \div 2
        half_h  == TILE_HEIGHT \div 2
    IN  IF half_w = 0 \/ half_h = 0 THEN FALSE
        ELSE LET dx == Abs(FDiv(local_x, half_w))
                 dy == Abs(FDiv(local_y, half_h))
             IN  Lt(FAdd(dx, dy), FromInt(1))

\* Tile.contains_point
contains_point(t, screen_x, screen_y, camera_x, camera_y) ==
    LET local_x == FSub(FromInt(screen_x), tile_screen_x(t, camera_x))
        local_y == FSub(FromInt(screen_y), tile_screen_y(t, camera_y))
        half_w  == TILE_WIDTH \div 2
        half_h  == TILE_HEIGHT \div 2
    IN  IF half_w = 0 \/ half_h = 0 THEN FALSE
        ELSE LET dx == Abs(FDiv(local_x, half_w))
                 dy == Abs(FDiv(local_y, half_h))
             IN  Le(FAdd(dx, dy), FromInt(1))

\* Tile.draw: the vertices of the top face (top, right, bottom, left)
TileTop(t, offset_x, offset_y) ==
    LET iso   == cart_to_iso(t)
        iso_x == FAdd(FromInt(iso.iso_x), offset_x)
        iso_y == FAdd(FromInt(iso.iso_y),
                      FSub(offset_y, FromInt(t.height * TILE_HEIGHT)))
        hw    == FromInt(TILE_WIDTH \div 2)
        hh    == FromInt(TILE_HEIGHT \div 2)
    IN  << [x |-> iso_x,           y |-> iso_y],
           [x |-> FAdd(iso_x, hw), y |-> FAdd(iso_y, hh)],
           [x |-> iso_x,           y |-> FAdd(iso_y, FromInt(TILE_HEIGHT))],
           [x |-> FSub(iso_x, hw), y |-> FAdd(iso_y, hh)] >>

------------------------------------------------------------------------------
(* Map *)

\* one row of Map._generate_tiles
RowTiles(row, y) == [i \in 1..Len(row) |-> Tile(i - 1, y, row[i])]

RECURSIVE GenRows(_, _)
GenRows(map_data, n) ==
    IF n = 0 THEN <<>>
    ELSE GenRows(map_data, n - 1) \o RowTiles(map_data[n], n - 1)

\* Map._generate_tiles: row by row, left to right
generate_tiles(map_data) == GenRows(map_data, Len(map_data))

\* the sort key lambda t: (t.x + t.y, t.x - t.y)
Key(t) == <<t.x + t.y, t.x - t.y>>

\* tuple comparison
KeyLess(a, b) == a[1] < b[1] \/ (a[1] = b[1] /\ a[2] < b[2])

Reverse(s) == [i \in 1..Len(s) |-> s[Len(s) + 1 - i]]

\* insert index i behind every element whose key is not greater (stable)
RECURSIVE InsertByKey(_, _, _)
InsertByKey(ts, s, i) ==
    IF s = <<>> THEN <<i>>
    ELSE IF KeyLess(Key(ts[i]), Key(ts[s[Len(s)]]))
         THEN Append(InsertByKey(ts, SubSeq(s, 1, Len(s) - 1), i), s[Len(s)])
         ELSE Append(s, i)

RECURSIVE SortFrom(_, _, _)
SortFrom(ts, order, n) ==
    IF n = 0 THEN <<>>
    ELSE InsertByKey(ts, SortFrom(ts, order, n - 1), order[n])

\* sorted(order, key=...): stable, ascending
SortedAsc(ts, order) == SortFrom(ts, order, Len(order))

\* sorted(order, key=..., reverse=True): descending, equal keys keep their order
SortedDesc(ts, order) == Reverse(SortedAsc(ts, Reverse(order)))

Indices(ts) == [i \in 1..Len(ts) |-> i]

\* a faulty variant: the tiles left in generation order
DrawOrderAsGenerated(ts) == Indices(ts)

\* Map.__init__: sorted_tiles
DrawOrder(ts) == SortedAsc(ts, Indices(ts))

\* a faulty variant: reverse=True forgotten
ClickOrderAscending(ts) == SortedAsc(ts, Indices(ts))

\* Map.handle_click: the fresh sort
ClickOrder(ts) == SortedDesc(ts, Indices(ts))

\* Map._update_hover_state: reversed(self.sorted_tiles)
HoverOrder(sorted) == Reverse(sorted)

\* lo < v < hi
Between(lo, v, hi) == Lt(lo, v) /\ Lt(v, hi)

\* a faulty variant: the bounds included (<=)
is_visible_inclusive(t, cam_x, cam_y, screen_width, screen_height) ==
    /\ Le(FromInt(-TILE_WIDTH), tile_screen_x(t, cam_x))
    /\ Le(tile_screen_x(t, cam_x), FromInt(screen_width))
    /\ Le(FromInt(-TILE_HEIGHT), tile_screen_y(t, cam_y))
    /\ Le(tile_screen_y(t, cam_y), FromInt(screen_height))

\* Map._is_visible
is_visible(t, cam_x, cam_y, screen_width, screen_height) ==
    /\ Between(FromInt(-TILE_WIDTH), tile_screen_x(t, cam_x), FromInt(screen_width))
    /\ Between(FromInt(-TILE_HEIGHT), tile_screen_y(t, cam_y), FromInt(screen_height))

\* the tiles a scan tests: up to and including the first that contains the point
RECURSIVE Scan(_, _, _, _, _)
Scan(ts, order, k, p, cam) ==
    IF k > Len(order) THEN <<>>
    ELSE IF contains_point(ts[order[k]], p[1], p[2], cam.x, cam.y)
         THEN <<order[k]>>
         ELSE <<order[k]>> \o Scan(ts, order, k + 1, p, cam)

\* the tile a scan ends on, or None
Hit(ts, tested, p, cam) ==
    IF tested /= <<>> /\ contains_point(ts[tested[Len(tested)]], p[1], p[2], cam.x, cam.y)
    THEN tested[Len(tested)]
    ELSE None

\* a faulty variant: the previous selection is never cleared
DeselectNever(ts, sel) == ts

\* if self.selected_tile: self.selected_tile.selected = False
Deselect(ts, sel) ==
    IF sel /= None THEN [ts EXCEPT ![sel].selected = FALSE] ELSE ts

\* a faulty variant: the previous hover is never cleared
UnhoverNever(ts, hov) == ts

\* if self.hovered_tile: self.hovered_tile.hover = False
Unhover(ts, hov) ==
    IF hov /= None THEN [ts EXCEPT ![hov].hover = FALSE] ELSE ts

\* tile.selected = True
Select(ts, hit) ==
    IF hit /= None THEN [ts EXCEPT ![hit].selected = TRUE] ELSE ts

\* a faulty variant: the hover update sets the selected flag
HoverAsSelected(ts, hit) ==
    IF hit /= None THEN [ts EXCEPT ![hit].selected = TRUE] ELSE ts

\* tile.hover = True
Hover(ts, hit) ==
    IF hit /= None THEN [ts EXCEPT ![hit].hover = TRUE] ELSE ts

\* Map.draw: visible_tiles
VisibleTiles(ts, sorted, cam) ==
    SelectSeq(sorted, LAMBDA i :
        is_visible(ts[i], cam.x, cam.y, SCREEN_WIDTH, SCREEN_HEIGHT))

\* Map.move_camera: (dx - dy) * Config.CAMERA_SPEED * 0.5
iso_dx(dx, dy) == DivPow2(FromInt((dx - dy) * CAMERA_SPEED), 1)

\* Map.move_camera: (dx + dy) * Config.CAMERA_SPEED * 0.25
iso_dy(dx, dy) == DivPow2(FromInt((dx + dy) * CAMERA_SPEED), 2)

------------------------------------------------------------------------------
(* bounds and inputs *)
MaxMoves == 1
MaxUpdates == 1
MaxPanMoves == 2
MaxPanUpdates == 1
MaxCamUpdates == 56

\* world layouts (rows of tile-type ordinals)
AllWater == << <<WATER, WATER>>, <<WATER, WATER>> >>

Stepped == << <<WATER, SAND>>, <<SAND, ROCKS>> >>

Column == << <<WATER>>, <<WATER>>, <<SAND>> >>

Raised == << <<SAND, SAND>> >>

Layouts == { AllWater, Stepped, Raised }

PanLayouts == { Stepped, Column }

\* pointer positions around the tiles at the initial camera, and one off the map
MousePoints ==
    { <<400, 232>>, <<400, 200>>, <<416, 208>>, <<400, 184>>, <<400, 168>>,
      <<10, 10>> }

\* pointer positions when the map is panned to the screen's corners
PanPoints == { <<0, 0>>, <<790, 790>> }

\* pan intents handed to move_camera: one frame of a key, and a key held for
\* eight frames
MoveInputs == { <<1, 0>>, <<-8, -8>> }

\* keys held until the map reaches the edges of the screen
PanInputs == { <<-160, 0>>, <<160, 80>> }

------------------------------------------------------------------------------
(* the Map's operations *)

\* Map.__init__
MapInit(map_data) ==
    /\ tiles = generate_tiles(map_data)
    /\ sorted_tiles = DrawOrder(generate_tiles(map_data))
    /\ camera = Camera(SCREEN_WIDTH \div 2, SCREEN_HEIGHT \div 4)
    /\ selected_tile = None
    /\ hovered_tile = None
    /\ mouse = <<0, 0>>
    /\ last_op = "init"
    /\ scanned = <<>>
    /\ drawn = <<>>
    /\ cleared = None
    /\ moves = 0
    /\ updates = 0

\* Map.handle_click
handle_click(p) ==
    \E tested \in {Scan(tiles, ClickOrder(tiles), 1, p, camera)} :
    \E hit \in {Hit(tiles, tested, p, camera)} :
        /\ tiles' = Select(Deselect(tiles, selected_tile), hit)
        /\ selected_tile' = hit
        /\ mouse' = p
        /\ scanned' = tested
        /\ cleared' = selected_tile
        /\ last_op' = "click"
        /\ UNCHANGED <<sorted_tiles, camera, hovered_tile, drawn, moves, updates>>

\* Map._update_hover_state, as Map.draw runs it
update_hover_state(p) ==
    \E tested \in {Scan(tiles, HoverOrder(sorted_tiles), 1, p, camera)} :
    \E hit \in {Hit(tiles, tested, p, camera)} :
        /\ tiles' = Hover(Unhover(tiles, hovered_tile), hit)
        /\ hovered_tile' = hit
        /\ mouse' = p
        /\ scanned' = tested
        /\ cleared' = hovered_tile

\* Map.draw, with pygame.mouse.get_pos() = p
draw(p) ==
    /\ update_hover_state(p)
    /\ drawn' = VisibleTiles(tiles, sorted_tiles, camera)
    /\ last_op' = "draw"
    /\ UNCHANGED <<sorted_tiles, camera, selected_tile, moves, updates>>

\* Map.move_camera
move_camera(dx, dy) ==
    /\ camera' = CameraMove(camera, iso_dx(dx, dy), iso_dy(dx, dy))
    /\ moves' = moves + 1
    /\ last_op' = "move"
    /\ UNCHANGED <<tiles, sorted_tiles, selected_tile, hovered_tile, mouse,
                   scanned, drawn, cleared, updates>>

\* Map.update
update ==
    /\ HalfExact(camera)
    /\ camera' = CameraUpdate(camera)
    /\ updates' = updates + 1
    /\ last_op' = "update"
    /\ UNCHANGED <<tiles, sorted_tiles, selected_tile, hovered_tile, mouse,
                   scanned, drawn, cleared, moves>>

------------------------------------------------------------------------------
(* the Map near its start position, under the frame loop's inputs *)
Init == \E map_data \in Layouts : MapInit(map_data)

Click == \E p \in MousePoints : handle_click(p)

Frame == \E p \in MousePoints : draw(p)

Pan == moves < MaxMoves /\ \E d \in MoveInputs : move_camera(d[1], d[2])

Tick == updates < MaxUpdates /\ update

Next == Click \/ Frame \/ Pan \/ Tick

Spec == Init /\ [][Next]_vars

------------------------------------------------------------------------------
(* the Map panned to the edges of the screen *)
InitPan == \E map_data \in PanLayouts : MapInit(map_data)

PanClick == \E p \in PanPoints : handle_click(p)

PanFrame == \E p \in PanPoints : draw(p)

PanFar == moves < MaxPanMoves /\ \E d \in PanInputs : move_camera(d[1], d[2])

PanTick == updates < MaxPanUpdates /\ update

NextPan == PanClick \/ PanFrame \/ PanFar \/ PanTick

SpecPan == InitPan /\ [][NextPan]_vars

------------------------------------------------------------------------------
(* a Camera on its own: Camera(x, 0, lerp=0.5), one move, then updates *)
CamStarts == { 0, 36 }

CamDeltas == { 100, 72 }

InitCamera ==
    /\ tiles = <<>>
    /\ sorted_tiles = <<>>
    /\ \E x \in CamStarts : camera = Camera(x, 0)
    /\ selected_tile = None
    /\ hovered_tile = None
    /\ mouse = <<0, 0>>
    /\ last_op = "init"
    /\ scanned = <<>>
    /\ drawn = <<>>
    /\ cleared = None
    /\ moves = 0
    /\ updates = 0

\* Camera.move, once, before the first update
CamMove ==
    /\ moves = 0
    /\ updates = 0
    /\ \E dx \in CamDeltas : camera' = CameraMove(camera, FromInt(dx), FromInt(0))
    /\ moves' = 1
    /\ last_op' = "move"
    /\ UNCHANGED <<tiles, sorted_tiles, selected_tile, hovered_tile, mouse,
                   scanned, drawn, cleared, updates>>

CamTick == updates < MaxCamUpdates /\ update

NextCamera == CamMove \/ CamTick

SpecCamera == InitCamera /\ [][NextCamera]_vars

------------------------------------------------------------------------------
(* vocabulary of the properties: exact (unrounded) screen geometry *)
TileIds == 1..Len(tiles)

SelectedSet == {i \in TileIds : tiles[i].selected}

HoverSet == {i \in TileIds : tiles[i].hover}

\* the last operation was a pick, so the camera and the pointer are the pick's
AfterPick == last_op \in {"click", "draw"}

\* the reference the last pick set
Picked == IF last_op = "click" THEN selected_tile ELSE hovered_tile

\* the flags the last pick set
PickedSet == IF last_op = "click" THEN SelectedSet ELSE HoverSet

Contains(i) ==
    contains_point(tiles[i], mouse[1], mouse[2], camera.x, camera.y)

Hits == {i \in TileIds : Contains(i)}

RECURSIVE XTimes(_, _)
XTimes(a, n) == IF n = 0 THEN Zero ELSE XAdd(a, XTimes(a, n - 1))

\* project(x, y, height) + camera position
ProjX(t) == XAdd(FromInt((t.x - t.y) * (TILE_WIDTH \div 2)), camera.x)

ProjY(t) ==
    XSub(XAdd(FromInt((t.x + t.y) * (TILE_HEIGHT \div 2)), camera.y),
         FromInt(t.height * TILE_HEIGHT))

\* |lx| / half_w + |ly| / half_h <= 1, cleared of its denominators
\* (half_w is a multiple of half_h)
InDiamond(lx, ly) ==
    Le(XAdd(Abs(lx), XTimes(Abs(ly), (TILE_WIDTH \div 2) \div (TILE_HEIGHT \div 2))),
       FromInt(TILE_WIDTH \div 2))

\* nx + ny <= 1 for the pointer, local to the tile's projected point
NormInside(t) ==
    InDiamond(XSub(FromInt(mouse[1]), ProjX(t)), XSub(FromInt(mouse[2]), ProjY(t)))

\* the pointer lies in the polygon draw() fills for the top face: the diamond
\* between the polygon's left and right vertices, centred on their height
InTopFace(t) ==
    \E top \in {TileTop(t, camera.x, camera.y)} :
        /\ top[2].x = XAdd(top[1].x, FromInt(TILE_WIDTH \div 2))
        /\ top[4].x = XSub(top[1].x, FromInt(TILE_WIDTH \div 2))
        /\ top[3].x = top[1].x
        /\ top[4].y = top[2].y
        /\ InDiamond(XSub(FromInt(mouse[1]), top[1].x),
                     XSub(FromInt(mouse[2]), top[2].y))

\* the pointer is exactly the tile's projected point
AtApex(t) == ProjX(t) = FromInt(mouse[1]) /\ ProjY(t) = FromInt(mouse[2])

UniformHeight == \A i, j \in TileIds : tiles[i].height = tiles[j].height

StrictlyAscending(order) ==
    \A i, j \in 1..Len(order) :
        i < j => KeyLess(Key(tiles[order[i]]), Key(tiles[order[j]]))

Range(seq) == {seq[k] : k \in 1..Len(seq)}

\* -tile_width < screen_x < screen_width and -tile_height < screen_y < screen_height
InViewport(t) ==
    /\ Lt(FromInt(-TILE_WIDTH), ProjX(t)) /\ Lt(ProjX(t), FromInt(SCREEN_WIDTH))
    /\ Lt(FromInt(-TILE_HEIGHT), ProjY(t)) /\ Lt(ProjY(t), FromInt(SCREEN_HEIGHT))

------------------------------------------------------------------------------
(* properties *)

\* C1: in every reachable state at most one tile has selected = true and at
\* most one tile has hover = true.
C1_AtMostOne == Cardinality(SelectedSet) <= 1 /\ Cardinality(HoverSet) <= 1

\* a selection made while another tile is hovered, after the camera moved
C1_Witness ==
    /\ last_op = "click"
    /\ cleared /= None
    /\ selected_tile /= None
    /\ selected_tile /= cleared
    /\ hovered_tile /= None
    /\ hovered_tile /= selected_tile
    /\ updates > 0

\* C2: both picks test the tiles in the cached draw order reversed and stop at
\* the first tile containing the point, so the tile chosen is the one with the
\* greatest key (x+y, x-y) among the tiles containing the point.
C2_PickOrder ==
    /\ ClickOrder(tiles) = Reverse(sorted_tiles)
    /\ AfterPick =>
          /\ \A k \in 1..Len(scanned) :
                /\ k <= Len(sorted_tiles)
                /\ scanned[k] = Reverse(sorted_tiles)[k]
                /\ k < Len(scanned) => ~Contains(scanned[k])
          /\ IF Hits = {}
             THEN Picked = None /\ Len(scanned) = Len(sorted_tiles)
             ELSE /\ Picked \in Hits
                  /\ scanned[Len(scanned)] = Picked
                  /\ \A j \in Hits \ {Picked} :
                        KeyLess(Key(tiles[j]), Key(tiles[Picked]))

\* a click on a point that several tiles contain
C2_Witness ==
    /\ last_op = "click"
    /\ Cardinality(Hits) >= 2
    /\ selected_tile \in Hits
    /\ moves > 0

\* C3: the tiles drawn in a frame are drawn in strictly ascending key order;
\* the cached order is the ascending order of all tiles in every state, so it
\* is the same in every frame.
C3_DrawOrder ==
    /\ Len(sorted_tiles) = Len(tiles)
    /\ Range(sorted_tiles) = TileIds
    /\ StrictlyAscending(sorted_tiles)
    /\ StrictlyAscending(drawn)
    /\ \A k \in 1..Len(drawn) : drawn[k] \in TileIds

\* a frame that culled a tile and drew several, after pans, picks and clicks
C3_Witness ==
    /\ last_op = "draw"
    /\ Len(drawn) >= 2
    /\ Len(drawn) < Len(tiles)
    /\ selected_tile /= None
    /\ moves > 0
    /\ updates > 0

\* C4: contains_point reports a hit exactly for the points of the tile's
\* screen footprint, the diamond whose four vertices (top, right, bottom,
\* left) draw() uses for the top face.
C4_HitRegionIsTopFace ==
    AfterPick => \A i \in TileIds : Contains(i) <=> InTopFace(tiles[i])

\* C5: contains_point is true exactly when nx + ny <= 1, boundary included.
C5_BoundaryInclusive ==
    AfterPick => \A i \in TileIds : Contains(i) <=> NormInside(tiles[i])

\* a pick at a vertex of a tile's tested diamond (nx = 0, ny = 1): it is the hit
C5_Witness ==
    /\ AfterPick
    /\ Picked /= None
    /\ ProjX(tiles[Picked]) = FromInt(mouse[1])
    /\ XSub(ProjY(tiles[Picked]), FromInt(mouse[2])) = FromInt(TILE_HEIGHT \div 2)

\* C7: in a layout of uniform height, a click at the projected position of a
\* tile selects exactly that tile.
C7_ClickAtProjection ==
    (last_op = "click" /\ UniformHeight) =>
        \A i \in TileIds :
            AtApex(tiles[i]) => selected_tile = i /\ SelectedSet = {i}

\* the 2x2 all-WATER layout, camera at its initial position, click at the
\* projected position of tile (1,1)
C7_Witness ==
    /\ last_op = "click"
    /\ Len(tiles) = 4
    /\ UniformHeight
    /\ camera.x = FromInt(SCREEN_WIDTH \div 2)
    /\ camera.y = FromInt(SCREEN_HEIGHT \div 4)
    /\ selected_tile /= None
    /\ tiles[selected_tile].x = 1
    /\ tiles[selected_tile].y = 1
    /\ AtApex(tiles[selected_tile])
    /\ cleared /= None

\* C8: a frame draws a tile if and only if its projected point lies strictly
\* inside (-tile_width, screen_width) x (-tile_height, screen_height).
C8_DrawnIffVisible ==
    last_op = "draw" =>
        \A i \in TileIds : (i \in Range(drawn)) <=> InViewport(tiles[i])

\* a frame in which a tile sits exactly on the right edge of the viewport, its
\* y inside, and is not drawn
C8_Witness ==
    /\ last_op = "draw"
    /\ drawn /= <<>>
    /\ \E i \in TileIds :
          /\ ProjX(tiles[i]) = FromInt(SCREEN_WIDTH)
          /\ Lt(FromInt(-TILE_HEIGHT), ProjY(tiles[i]))
          /\ Lt(ProjY(tiles[i]), FromInt(SCREEN_HEIGHT))
          /\ i \notin Range(drawn)

\* C9: a pick clears the previous flag unconditionally: after a pick at a
\* point no tile contains, no tile carries the flag and the reference is None;
\* after a pick that hits, the tile flagged before is no longer flagged unless
\* it is the tile hit.
C9_ClearedFirst ==
    AfterPick =>
        /\ Hits = {} => PickedSet = {} /\ Picked = None
        /\ (cleared /= None /\ cleared /= Picked) => cleared \notin PickedSet

\* a click on empty screen while a tile was selected
C9_Witness ==
    /\ last_op = "click"
    /\ Hits = {}
    /\ cleared /= None

\* a tile carries a flag iff the Map's reference of that kind is the tile
C10_Linked ==
    /\ \A i \in TileIds : tiles[i].selected <=> selected_tile = i
    /\ \A i \in TileIds : tiles[i].hover <=> hovered_tile = i

\* what a step leaves alone, by the operation that made it
C10_Untouched ==
    /\ last_op' = "draw" =>
          /\ selected_tile' = selected_tile
          /\ \A i \in TileIds : tiles'[i].selected = tiles[i].selected
    /\ last_op' = "click" =>
          /\ hovered_tile' = hovered_tile
          /\ \A i \in TileIds : tiles'[i].hover = tiles[i].hover
    /\ last_op' \in {"move", "update"} =>
          /\ tiles' = tiles
          /\ selected_tile' = selected_tile
          /\ hovered_tile' = hovered_tile

\* C10: in every reachable state a tile is flagged selected (hover) iff
\* selected_tile (hovered_tile) is that tile, so no tile is flagged when the
\* reference is None; hover updates leave the selection alone, clicks leave
\* the hover alone, camera operations leave both alone.
C10_FlagsFollowReferences == C10_Linked /\ [][C10_Linked' /\ C10_Untouched]_vars

\* a tile selected, another hovered, and the camera updated since
C10_Witness ==
    /\ last_op = "update"
    /\ selected_tile /= None
    /\ hovered_tile /= None
    /\ hovered_tile /= selected_tile

------------------------------------------------------------------------------
(* the camera's convergence *)
UpdateStep == last_op' = "update" /\ moves = 1

\* the camera that started at x = 0 and was sent to target_x = 100
FromZeroToHundred == camera.target_x = FromInt(100)

\* from x = 0 with target_x = 100, one update gives 50 and the next 75
FirstSteps ==
    /\ (camera.x = FromInt(0) /\ camera.target_x = FromInt(100))
          => camera'.x = FromInt(50)
    /\ (camera.x = FromInt(50) /\ camera.target_x = FromInt(100))
          => camera'.x = FromInt(75)

\* C6 as stated: from x = 0 with target_x = 100 one update gives 50 and the
\* next 75, and every update moves x strictly up and leaves it strictly below
\* target_x, so x never equals the target.
C6_NeverReaches ==
    [][(UpdateStep /\ FromZeroToHundred) =>
          /\ FirstSteps
          /\ Lt(camera.x, camera'.x)
          /\ Lt(camera'.x, camera.target_x)]_vars

\* C6 amended: from x = 0 with target_x = 100 one update gives 50 and the
\* next 75; every update from below the target moves x strictly up and never
\* past target_x; in binary64 x equals target_x from the 54th update on, and
\* an update at the target leaves x there.
C6_ReachesTarget ==
    [][UpdateStep =>
          /\ FirstSteps
          /\ Le(camera'.x, camera.target_x)
          /\ Lt(camera.x, camera.target_x) => Lt(camera.x, camera'.x)
          /\ camera.x = camera.target_x => camera'.x = camera.x
          /\ (FromZeroToHundred /\ updates' >= 54) => camera'.x = camera.target_x]_vars

\* x = 0, target_x = 100: the 54th update has made x equal to the target
C6_Witness ==
    /\ updates = 54
    /\ moves = 1
    /\ camera.target_x = FromInt(100)
    /\ camera.x = camera.target_x

====
